---------------------------- MODULE Spec2Model ----------------------------
(***************************************************************************)
(* A model of aimigrate: the per-file migration orchestrator               *)
(* (migrate_core.py), the unified-diff parser and the Python structure     *)
(* index (files.py, code.py) and the extraction of code from a response    *)
(* (migrate_core.py, migration.py).                                        *)
(*                                                                         *)
(* Text is a sequence of one-character strings, so that searching,         *)
(* splitting and stripping are computed on characters as the code does.    *)
(*                                                                         *)
(* Four specifications share the module, one per component:                *)
(*   SpecRun      CoreMigrate.make_code_files / make_prompts / _run        *)
(*   SpecDiff     GitDiff.parse_git_diff / get_diff_string                 *)
(*   SpecExtract  CoreCodeFile.parse_response / CodeFile.parse_response    *)
(*   SpecCode     PythonCode / ClassVisitor / MethodVisitor                *)
(* The variables of the components a specification does not move keep the  *)
(* idle value given to them by its initial predicate.                      *)
(***************************************************************************)
EXTENDS Integers, Sequences, FiniteSets, TLC

VARIABLES
    \* ---- orchestrator (CoreMigrate and its CoreCodeFile tasks)
    die,            \* self.die
    parallel,       \* self.parallel
    save,           \* self.save
    files,          \* self.files: the sequence of files to migrate
    env,            \* per file, the step of its pipeline that fails (or "ok")
    pc,             \* position of the orchestrator in run()
    exc,            \* the exception that left run(), NoExc while none has
    code_files,     \* self.code_files: the tasks constructed so far
    stage,          \* per file, how far its task got
    response,       \* per file, CoreCodeFile.response
    new_str,        \* per file, CoreCodeFile.new_str
    dest,           \* per file, the text of the destination file
    errors,         \* self.errors
    idx,            \* index of the sequential loop of _run
    tpc,            \* per file, the position of its run_single call
    caught,         \* per file, the exception run_single caught
    nquery,         \* per file, the number of calls of the chatter
    reported,       \* whether self.timer.toc("Total time") was reached
    \* ---- diff parser (GitDiff)
    sections,       \* the file sections the diff text was written from
    diff_text,      \* the diff handed to GitDiff
    include_patterns,
    exclude_patterns,
    dpc,            \* "input", "parsed", "joined"
    diffs,          \* GitDiff.diffs
    diff_string,    \* the result of get_diff_string()
    \* ---- extraction of the code from a response
    xtext,          \* json["kwargs"]["content"]
    xpc,            \* "response", "core", "legacy"
    xnew,           \* the new_str parse_response sets
    \* ---- structure index (PythonCode)
    code_lines,     \* PythonCode.code_lines
    classes,        \* PythonCode.classes
    cpc,            \* "edit", "loaded", "load_failed", "called"
    ccall,          \* the lookup performed: operation and class name
    cresult,        \* what the lookup returned or raised
    \* ---- context acquisition and prompt assembly (the run() of a strategy)
    strategy,       \* "diff" (MigrateDiff), "repo" (MigrateRepo), "oob" (MigrateOOB)
    opts,           \* the constructor arguments and the environment they meet
    apc,            \* the next step of run()
    self_diff,      \* self.diff
    head,           \* what the library has checked out: revision and branch
    effects,        \* the file reads, validations and git commands made so far
    git_diff,       \* self.git_diff.diffs
    encoder,        \* self.encoder
    prompts,        \* per task, the context text put into its prompt
    n_tokens,       \* per task, CoreCodeFile.n_tokens
    aexc,           \* the exception that left run(), "none" while none has
    \* ---- the shared chat collaborator (SimpleQuery) under worker threads
    get_callback,   \* self.get_callback: "get_openai_callback" or "EmptyCallback"
    cost,           \* self.cost["total"]
    qpc,            \* per thread, its position in chat()
    qreg,           \* per thread, the value of self.cost["total"] it loaded
    \* -- construction of a query object (chat.py) --
    query_class,    \* the class constructed: SimpleQuery, CSVQuery or JSONQuery
    model_arg,      \* the model argument of the constructor
    bpc,            \* "new", "built", "called", or "raised"
    config,         \* self.config: [model, provider], or None
    llm,            \* self.llm: the client made, or None
    chain,          \* self.chain: the parts piped together, or None
    bexc            \* the exception the constructor raised, or none

runVars == <<die, parallel, save, files, env, pc, exc, code_files, stage,
             response, new_str, dest, errors, idx, tpc, caught, nquery,
             reported>>
diffVars == <<sections, diff_text, include_patterns, exclude_patterns, dpc,
              diffs, diff_string>>
extractVars == <<xtext, xpc, xnew>>
codeVars == <<code_lines, classes, cpc, ccall, cresult>>
ctxVars == <<strategy, opts, apc, self_diff, head, effects, git_diff, encoder,
             prompts, n_tokens, aexc>>
chatVars == <<get_callback, cost, qpc, qreg>>
queryVars == <<query_class, model_arg, bpc, config, llm, chain, bexc>>
vars == <<runVars, diffVars, extractVars, codeVars, ctxVars, chatVars,
          queryVars>>

-----------------------------------------------------------------------------
(* Text helpers *)

\* The concatenation of a sequence of texts (str.join with an empty separator).
RECURSIVE Join(_)
Join(ss) == IF ss = <<>> THEN <<>> ELSE Head(ss) \o Join(Tail(ss))

\* Whether the literal lit occurs in text at position i.
MatchAt(text, lit, i) ==
    /\ i >= 1
    /\ i + Len(lit) - 1 <= Len(text)
    /\ SubSeq(text, i, i + Len(lit) - 1) = lit

\* The least position >= i at which lit occurs in text, 0 when there is none.
RECURSIVE Find(_, _, _)
Find(text, lit, i) ==
    IF i + Len(lit) - 1 > Len(text) THEN 0
    ELSE IF MatchAt(text, lit, i) THEN i
    ELSE Find(text, lit, i + 1)

\* The backquote character (the lexer of the language reserves it, so the one
\* character is written with two letters; no other character is).
BQ == "bq"

FENCE == <<BQ, BQ, BQ>>
PYTHON == <<"p", "y", "t", "h", "o", "n">>
PYFENCE == FENCE \o PYTHON

NoMatch == [found |-> FALSE, group |-> <<>>]

\* re.compile(pattern, re.DOTALL).search(text) for a pattern made of an opening
\* literal, a lazy group of any characters and a closing fence: the scan tries
\* each start position from the left; at a start where the opening literal
\* matches, the lazy group is extended to the first closing fence.
RECURSIVE SearchFrom(_, _, _)
SearchFrom(text, open, i) ==
    IF i > Len(text) THEN NoMatch
    ELSE IF MatchAt(text, open, i)
              /\ Find(text, FENCE, i + Len(open)) # 0
         THEN [found |-> TRUE,
               group |-> SubSeq(text, i + Len(open),
                                Find(text, FENCE, i + Len(open)) - 1)]
         ELSE SearchFrom(text, open, i + 1)

Search(text, open) == SearchFrom(text, open, 1)

\* The mutant of match_patterns: the generic pattern tried first.
match_patterns_generic_first == <<FENCE, PYFENCE>>

\* migrate_core.py, match_patterns: the language-tagged fence, then the
\* generic fence (each pattern named here by its opening literal).
match_patterns == <<PYFENCE, FENCE>>

\* The for loop of CoreCodeFile.parse_response: the first pattern that matches
\* ends the loop; code_match is the result of the last search made.
RECURSIVE LoopPatterns(_, _)
LoopPatterns(text, pats) ==
    IF Len(pats) = 1 \/ Search(text, Head(pats)).found
    THEN Search(text, Head(pats))
    ELSE LoopPatterns(text, Tail(pats))

\* CoreCodeFile.parse_response: new_str from the content of the response.
ParseResponseCore(text) ==
    LET code_match == LoopPatterns(text, match_patterns)
    IN  IF code_match.found THEN code_match.group ELSE text

\* CodeFile.parse_response (migration.py): the same two searches, nested.
ParseResponseLegacy(text) ==
    LET tagged == Search(text, PYFENCE)
        generic == Search(text, FENCE)
    IN  IF tagged.found THEN tagged.group
        ELSE IF generic.found THEN generic.group
        ELSE text

-----------------------------------------------------------------------------
(* Idle values of the components *)

NoExc == [type |-> "none", file |-> 0]
Unset == <<"None">>

RunIdle ==
    /\ die = FALSE /\ parallel = FALSE /\ save = FALSE
    /\ files = <<>> /\ env = <<>>
    /\ pc = "idle" /\ exc = NoExc
    /\ code_files = <<>> /\ stage = <<>> /\ response = <<>>
    /\ new_str = <<>> /\ dest = <<>> /\ errors = <<>> /\ idx = 0
    /\ tpc = <<>> /\ caught = <<>> /\ nquery = <<>> /\ reported = FALSE

DiffIdle ==
    /\ sections = <<>> /\ diff_text = <<>>
    /\ include_patterns = {} /\ exclude_patterns = {}
    /\ dpc = "idle" /\ diffs = <<>> /\ diff_string = Unset

ExtractIdle ==
    /\ xtext = <<>> /\ xpc = "idle" /\ xnew = Unset

CodeIdle ==
    /\ code_lines = <<>> /\ classes = <<>> /\ cpc = "idle"
    /\ ccall = <<>> /\ cresult = Unset

CtxIdle ==
    /\ strategy = "none" /\ opts = <<>> /\ apc = "idle"
    /\ self_diff = Unset /\ head = <<>> /\ effects = <<>>
    /\ git_diff = Unset /\ encoder = "None"
    /\ prompts = <<>> /\ n_tokens = <<>> /\ aexc = "none"

ChatIdle ==
    /\ get_callback = "none" /\ cost = 0 /\ qpc = <<>> /\ qreg = <<>>

QueryIdle ==
    /\ query_class = "" /\ model_arg = "" /\ bpc = "idle"
    /\ config = [model |-> "None", provider |-> "None"]
    /\ llm = [class |-> "None", model |-> "None"]
    /\ chain = Unset
    /\ bexc = [type |-> "none", text |-> <<>>]

-----------------------------------------------------------------------------
(* SpecExtract: the extraction of the replacement text from a response *)

\* The number of segments a response text is written from.
MaxSegs == 5

\* The pieces response texts are written from: a fence, a fence followed by
\* the language tag, an ordinary character, a line end, a lone backquote.
Segments == {FENCE, PYFENCE, <<"x">>, <<"\n">>, <<BQ>>}

RECURSIVE SeqsUpTo(_, _)
SeqsUpTo(S, n) ==
    IF n = 0 THEN {<<>>}
    ELSE SeqsUpTo(S, n - 1)
         \cup {Append(s, e) : s \in {t \in SeqsUpTo(S, n - 1) : Len(t) = n - 1},
                              e \in S}

ResponseTexts == {Join(ss) : ss \in SeqsUpTo(Segments, MaxSegs)}

InitExtract ==
    /\ xtext \in ResponseTexts
    /\ xpc = "response"
    /\ xnew = Unset
    /\ RunIdle /\ DiffIdle /\ CodeIdle /\ CtxIdle /\ ChatIdle /\ QueryIdle

\* CoreCodeFile.parse_response on a response whose content is xtext.
ParseResponse ==
    /\ xpc = "response"
    /\ xnew' = ParseResponseCore(xtext)
    /\ xpc' = "core"
    /\ UNCHANGED <<xtext, runVars, diffVars, codeVars, ctxVars, chatVars, queryVars>>

\* CodeFile.parse_response (migration.py) on the same response.
ParseResponseOld ==
    /\ xpc = "response"
    /\ xnew' = ParseResponseLegacy(xtext)
    /\ xpc' = "legacy"
    /\ UNCHANGED <<xtext, runVars, diffVars, codeVars, ctxVars, chatVars, queryVars>>

NextExtract == ParseResponse \/ ParseResponseOld

SpecExtract == InitExtract /\ [][NextExtract]_vars

\* A tagged block: the tagged opening fence at i, closed by a fence at j.
TaggedBlock(text, i, j) ==
    /\ MatchAt(text, PYFENCE, i)
    /\ j >= i + Len(PYFENCE)
    /\ MatchAt(text, FENCE, j)

\* A fenced block: an opening fence at i, closed by a fence at j.
FencedBlock(text, i, j) ==
    /\ MatchAt(text, FENCE, i)
    /\ j >= i + Len(FENCE)
    /\ MatchAt(text, FENCE, j)

Positions(text) == 1..Len(text)

\* (i, j) is the first block of its kind: no block of the kind opens before i,
\* and none opening at i closes before j.
FirstTagged(text, i, j) ==
    /\ TaggedBlock(text, i, j)
    /\ \A a, b \in Positions(text) :
           TaggedBlock(text, a, b) => a > i \/ (a = i /\ b >= j)

FirstFenced(text, i, j) ==
    /\ FencedBlock(text, i, j)
    /\ \A a, b \in Positions(text) :
           FencedBlock(text, a, b) => a > i \/ (a = i /\ b >= j)

HasTagged(text) == \E i, j \in Positions(text) : TaggedBlock(text, i, j)
HasFenced(text) == \E i, j \in Positions(text) : FencedBlock(text, i, j)

\* C8: once a response was parsed (by either parse_response), the replacement
\* is the body of the first language-tagged fenced block when the text holds
\* one (whatever precedes it), else the body of the first fenced block when the
\* text holds one, else the whole text unchanged.
C8_ExtractionPrefersTagged ==
    xpc \in {"core", "legacy"} =>
        /\ HasTagged(xtext) =>
              \E i, j \in Positions(xtext) :
                  /\ FirstTagged(xtext, i, j)
                  /\ xnew = SubSeq(xtext, i + Len(PYFENCE), j - 1)
        /\ (~HasTagged(xtext) /\ HasFenced(xtext)) =>
              \E i, j \in Positions(xtext) :
                  /\ FirstFenced(xtext, i, j)
                  /\ xnew = SubSeq(xtext, i + Len(FENCE), j - 1)
        /\ ~HasFenced(xtext) => xnew = xtext

\* C8 witness: a parsed response in which an untagged fenced block comes
\* before a tagged one, and the two bodies differ.
C8_Witness ==
    /\ xpc = "core"
    /\ \E a, b \in Positions(xtext) :
          /\ FirstFenced(xtext, a, b)
          /\ \E i, j \in Positions(xtext) :
                /\ FirstTagged(xtext, i, j)
                /\ b < i
                /\ SubSeq(xtext, a + Len(FENCE), b - 1)
                       # SubSeq(xtext, i + Len(PYFENCE), j - 1)
                /\ xnew = SubSeq(xtext, i + Len(PYFENCE), j - 1)

-----------------------------------------------------------------------------
(* SpecDiff: GitDiff.parse_git_diff and GitDiff.get_diff_string *)

LF == "\n"
CR == "\r"

\* The characters str.splitlines ends a line at (of those the texts hold).
LineEnds == {LF, CR}

\* The characters str.rstrip() removes.
Whitespace == {" ", "\t", LF, CR}

\* The least position >= i of text that holds a line end, 0 when none does.
RECURSIVE NextLineEnd(_, _)
NextLineEnd(text, i) ==
    IF i > Len(text) THEN 0
    ELSE IF text[i] \in LineEnds THEN i
    ELSE NextLineEnd(text, i + 1)

\* The position after the terminator found at e ("\r\n" is one terminator).
AfterTerminator(text, e) ==
    IF text[e] = CR /\ e < Len(text) /\ text[e + 1] = LF THEN e + 2 ELSE e + 1

\* str.splitlines() from position i on: the lines without their terminators;
\* a text that ends with a terminator has no empty last line.
RECURSIVE SplitFrom(_, _)
SplitFrom(text, i) ==
    IF i > Len(text) THEN <<>>
    ELSE LET e == NextLineEnd(text, i)
         IN  IF e = 0 THEN <<SubSeq(text, i, Len(text))>>
             ELSE <<SubSeq(text, i, e - 1)>>
                  \o SplitFrom(text, AfterTerminator(text, e))

SplitLines(text) == SplitFrom(text, 1)

\* str.rstrip(): the line without its trailing whitespace.
RECURSIVE RStrip(_)
RStrip(line) ==
    IF line # <<>> /\ line[Len(line)] \in Whitespace
    THEN RStrip(SubSeq(line, 1, Len(line) - 1))
    ELSE line

\* fnmatch.fnmatch(name, pat) for patterns of literals, "*" and "?".
RECURSIVE FnMatch(_, _)
FnMatch(name, pat) ==
    IF pat = <<>> THEN name = <<>>
    ELSE IF Head(pat) = "*"
    THEN FnMatch(name, Tail(pat)) \/ (name # <<>> /\ FnMatch(Tail(name), pat))
    ELSE IF Head(pat) = "?"
    THEN name # <<>> /\ FnMatch(Tail(name), Tail(pat))
    ELSE name # <<>> /\ Head(name) = Head(pat) /\ FnMatch(Tail(name), Tail(pat))

AnyMatch(name, pats) == \E pat \in pats : FnMatch(name, pat)

DIFFGIT == <<"d", "i", "f", "f", " ", "-", "-", "g", "i", "t", " ", "a", "/">>
BSIDE == <<" ", "b", "/">>
ATAT == <<"@", "@">>

\* re.match of the file header pattern, "diff --git a/" then a lazy group of
\* one or more characters then " b/", at the start of the line: the group
\* ends at the first " b/" that leaves it one character or more.
FileMatch(line) ==
    IF MatchAt(line, DIFFGIT, 1)
          /\ Find(line, BSIDE, Len(DIFFGIT) + 2) # 0
    THEN [found |-> TRUE,
          group |-> SubSeq(line, Len(DIFFGIT) + 1,
                           Find(line, BSIDE, Len(DIFFGIT) + 2) - 1)]
    ELSE NoMatch

\* current_file = None
NoFile == <<"None">>

\* An element of current_hunks: the list of the lines of the hunk being read,
\* or the string a closed hunk was joined to.
HunkList(lines) == [islist |-> TRUE, val |-> lines]
HunkStr(text) == [islist |-> FALSE, val |-> text]

\* ''.join(h) of an element of current_hunks (the join of a string is itself).
JoinHunk(h) == IF h.islist THEN Join(h.val) ELSE h.val

\* current_hunks.append(''.join(current_hunks.pop()))
CloseLast(hunks) ==
    Append(SubSeq(hunks, 1, Len(hunks) - 1), HunkStr(JoinHunk(hunks[Len(hunks)])))

\* The mutant of SaveFileDiff: a file is saved whether or not it has hunks.
SaveFileDiffAlways(st) ==
    IF st.current_file # NoFile
    THEN Append(st.diffs,
                [file |-> st.current_file,
                 hunks |-> IF st.current_hunks = <<>> THEN <<>>
                           ELSE CloseLast(st.current_hunks)])
    ELSE st.diffs

\* diffs.append(sc.objdict({"file": current_file, "hunks": current_hunks}))
\* when current_file and current_hunks, after closing the last hunk.
SaveFileDiff(st) ==
    IF st.current_file # NoFile /\ st.current_hunks # <<>>
    THEN Append(st.diffs, [file |-> st.current_file,
                           hunks |-> CloseLast(st.current_hunks)])
    ELSE st.diffs

\* The mutant of Discarded: exclude patterns are ignored once an include
\* pattern matches.
DiscardedIncludeWins(path, incl, excl) ==
    incl # {} /\ ~AnyMatch(path, incl)

\* Lines 155-162: whether the new file is skipped.
Discarded(path, incl, excl) ==
    IF incl # {} /\ ~AnyMatch(path, incl) THEN TRUE
    ELSE IF excl # {} /\ AnyMatch(path, excl) THEN TRUE
    ELSE FALSE

\* The mutant of AfterHeader: a skipped file does not clear current_file.
AfterHeaderKeepsFile(st, path, incl, excl) ==
    [st EXCEPT !.diffs = SaveFileDiff(st),
               !.current_file = IF Discarded(path, incl, excl) THEN @ ELSE path,
               !.current_hunks = <<>>]

\* Lines 147-164: a file header line.
AfterHeader(st, path, incl, excl) ==
    [st EXCEPT !.diffs = SaveFileDiff(st),
               !.current_file = IF Discarded(path, incl, excl) THEN NoFile ELSE path,
               !.current_hunks = <<>>]

\* Lines 166-172: a hunk header line.
AfterHunkStart(st, line) ==
    LET open == st.current_hunks
        closed == IF /\ st.current_file # NoFile
                     /\ open # <<>>
                     /\ open[Len(open)].val # <<>>
                  THEN CloseLast(open) ELSE open
    IN  [st EXCEPT !.current_hunks =
                       Append(closed, HunkList(<<RStrip(line) \o <<LF>>>>))]

\* Lines 174-176: any other line, while current_hunks is not empty: appended
\* to the last element, which must be a list.
AfterOtherLine(st, line) ==
    LET open == st.current_hunks
        last == open[Len(open)]
    IN  IF open = <<>> THEN st
        ELSE IF ~last.islist THEN [st EXCEPT !.raised = "AttributeError"]
        ELSE [st EXCEPT !.current_hunks[Len(open)] =
                            HunkList(Append(last.val, RStrip(line) \o <<LF>>))]

\* One iteration of the loop over the lines.
ParseLine(st, line, incl, excl) ==
    LET file_match == FileMatch(line) IN
    IF st.raised # "none" THEN st
    ELSE IF file_match.found
    THEN AfterHeader(st, file_match.group, incl, excl)
    ELSE IF MatchAt(line, ATAT, 1) THEN AfterHunkStart(st, line)
    ELSE AfterOtherLine(st, line)

RECURSIVE ParseLines(_, _, _, _)
ParseLines(st, lines, incl, excl) ==
    IF lines = <<>> THEN st
    ELSE ParseLines(ParseLine(st, Head(lines), incl, excl), Tail(lines), incl, excl)

ParseStart ==
    [diffs |-> <<>>, current_file |-> NoFile, current_hunks |-> <<>>,
     raised |-> "none"]

\* GitDiff.parse_git_diff(file, include_patterns, exclude_patterns) for a file
\* given as a string: the empty string returns at once; a string without a
\* line feed is opened as a file name, and what open() returns or raises
\* never reaches the loop as a string (readlines() gives a list, which has no
\* splitlines); any other string is parsed line by line.
ParseGitDiff(file, incl, excl) ==
    IF file = <<>> THEN [raised |-> "none", diffs |-> <<>>]
    ELSE IF ~(\E i \in 1..Len(file) : file[i] = LF)
    THEN [raised |-> "OSError or AttributeError", diffs |-> <<>>]
    ELSE LET st == ParseLines(ParseStart, SplitLines(file), incl, excl)
         IN  [raised |-> st.raised,
              diffs |-> IF st.raised = "none" THEN SaveFileDiff(st) ELSE <<>>]

\* GitDiff.get_diff_string(file=None)
GetDiffStringOf(ds) ==
    Join([i \in 1..Len(ds) |->
             Join([j \in 1..Len(ds[i].hunks) |-> JoinHunk(ds[i].hunks[j])])])

\* ---- the diffs handed to the parser

\* The number of file sections of a diff.
MaxSections == 3

PathA == <<"a", ".", "p", "y">>
PathB == <<"b", ".", "p", "y">>
PathC == <<"d", "/", "c", ".", "p", "y">>
Paths == {PathA, PathB, PathC}

\* The letter the content lines of a file's section carry: no two files of
\* the diffs share it.
Tag(path) == path[Len(path) - 3]

\* The shapes of a section's body: no hunk at all (a rename, a mode change);
\* one hunk after a "---" line; two hunks, the first with a blank context line
\* (a single space).
Bodies == {"none", "one", "two"}

\* The hunks of a section as written in the diff: each a sequence of lines
\* with their terminators.
SectionHunks(sec) ==
    IF sec.body = "none" THEN <<>>
    ELSE IF sec.body = "one"
    THEN << << <<"@", "@", "1", LF>>, <<"+", Tag(sec.path), LF>> >> >>
    ELSE << << <<"@", "@", "1", LF>>, <<" ", LF>>, <<"-", Tag(sec.path), LF>> >>,
            << <<"@", "@", "2", LF>>, <<"+", Tag(sec.path), LF>> >> >>

\* The lines between the file header and the first hunk.
SectionPreamble(sec) ==
    IF sec.body = "one" THEN << <<"-", "-", "-", LF>> >> ELSE <<>>

SectionText(sec) ==
    DIFFGIT \o sec.path \o BSIDE \o sec.path \o <<LF>>
    \o Join(SectionPreamble(sec))
    \o Join([h \in 1..Len(SectionHunks(sec)) |-> Join(SectionHunks(sec)[h])])

AllSections == [path : Paths, body : Bodies]

DiffText(secs) == Join([i \in 1..Len(secs) |-> SectionText(secs[i])])

\* The include and exclude pattern sets the parser is given.
PatternConfigs ==
    { [inc |-> {<<"*", ".", "p", "y">>}, exc |-> {<<"d", "/", "*">>}],
      [inc |-> {<<"a", "*">>, <<"*", "c", "*">>}, exc |-> {<<"?", "/", "*">>, <<"b", "*">>}],
      [inc |-> {<<"?", ".", "p", "y">>}, exc |-> {}],
      [inc |-> {}, exc |-> {<<"?", ".", "p", "y">>}] }

\* Texts that are not made of file sections: a single line with no newline,
\* lines with no header at all, and a header that lacks the b/ side.
LooseTexts ==
    { <<"+", "x">>,
      <<"@", "@", "1">>,
      <<"+", "x", LF, "-", "y", LF>>,
      DIFFGIT \o <<"a", ".", "p", "y", LF, "@", "@", "1", LF, "+", "x", LF>> }

InitDiff ==
    /\ sections \in SeqsUpTo(AllSections, MaxSections)
    /\ diff_text \in (IF sections = <<>> THEN {<<>>} \cup LooseTexts
                      ELSE {DiffText(sections)})
    /\ \E cfg \in PatternConfigs :
          /\ include_patterns = cfg.inc
          /\ exclude_patterns = cfg.exc
    /\ dpc = "input"
    /\ diffs = <<>>
    /\ diff_string = Unset
    /\ RunIdle /\ ExtractIdle /\ CodeIdle /\ CtxIdle /\ ChatIdle /\ QueryIdle

\* GitDiff.__init__: self.diffs = self.parse_git_diff(file, ...)
ParseDiff ==
    /\ dpc = "input"
    /\ LET r == ParseGitDiff(diff_text, include_patterns, exclude_patterns)
       IN  /\ dpc' = IF r.raised = "none" THEN "parsed" ELSE "raised"
           /\ diffs' = r.diffs
    /\ UNCHANGED <<sections, diff_text, include_patterns, exclude_patterns,
                   diff_string>>
    /\ UNCHANGED <<runVars, extractVars, codeVars, ctxVars, chatVars, queryVars>>

\* GitDiff.get_diff_string()
GetDiffString ==
    /\ dpc = "parsed"
    /\ diff_string' = GetDiffStringOf(diffs)
    /\ dpc' = "joined"
    /\ UNCHANGED <<sections, diff_text, include_patterns, exclude_patterns,
                   diffs>>
    /\ UNCHANGED <<runVars, extractVars, codeVars, ctxVars, chatVars, queryVars>>

NextDiff == ParseDiff \/ GetDiffString

SpecDiff == InitDiff /\ [][NextDiff]_vars

-----------------------------------------------------------------------------
(* Claims about the diff parser *)

Parsed == dpc \in {"parsed", "joined"}

\* The filter policy as the specification states it: a path is filtered out
\* when the include set is not empty and no include pattern matches it, or
\* when an exclude pattern matches it.
FilteredOut(path) ==
    \/ include_patterns # {} /\ \A pat \in include_patterns : ~FnMatch(path, pat)
    \/ \E pat \in exclude_patterns : FnMatch(path, pat)

\* The sections of the diff that are to be emitted: not filtered out, and
\* with a hunk.
ToEmit(sec) == ~FilteredOut(sec.path) /\ sec.body # "none"
EmittedSections == SelectSeq(sections, ToEmit)

\* The text of the hunks of a section, exactly as the diff holds it.
HunkTextVerbatim(sec) ==
    Join([h \in 1..Len(SectionHunks(sec)) |-> Join(SectionHunks(sec)[h])])

\* C4: after parsing a diff and concatenating all hunks, the result is,
\* character for character and in order, the hunk text of every file that was
\* not filtered out.
C4_RoundTripVerbatim ==
    dpc = "joined" =>
        diff_string = Join([i \in 1..Len(EmittedSections) |->
                               HunkTextVerbatim(EmittedSections[i])])

\* C5: with include and exclude sets both non-empty, a path of the diff that
\* matches an include pattern and an exclude pattern is the file of no
\* emitted FileDiff.
C5_ExcludeWins ==
    (Parsed /\ include_patterns # {} /\ exclude_patterns # {}) =>
        \A i \in 1..Len(sections) :
            (/\ \E pat \in include_patterns : FnMatch(sections[i].path, pat)
             /\ \E pat \in exclude_patterns : FnMatch(sections[i].path, pat))
            => \A k \in 1..Len(diffs) : diffs[k].file # sections[i].path

\* C5 witness: a parsed diff with a section that has hunks and whose path
\* matches an include and an exclude pattern, next to a file that is emitted.
C5_Witness ==
    /\ Parsed
    /\ diffs # <<>>
    /\ \E i \in 1..Len(sections) :
          /\ sections[i].body # "none"
          /\ \E pat \in include_patterns : FnMatch(sections[i].path, pat)
          /\ \E pat \in exclude_patterns : FnMatch(sections[i].path, pat)

\* C6: every emitted FileDiff has at least one hunk, every hunk is a
\* non-empty string, and the emitted files are, in order, exactly the sections
\* not filtered out that have a hunk: a section with a header and no hunk is
\* not among them, wherever it stands.
C6_NoEmptyFileDiff ==
    Parsed =>
        LET em == EmittedSections IN
        /\ \A k \in 1..Len(diffs) :
              /\ Len(diffs[k].hunks) >= 1
              /\ \A h \in 1..Len(diffs[k].hunks) :
                    /\ ~diffs[k].hunks[h].islist
                    /\ diffs[k].hunks[h].val # <<>>
        /\ [k \in 1..Len(diffs) |-> diffs[k].file]
              = [k \in 1..Len(em) |-> em[k].path]

\* C6 witness: a section without hunks, not filtered out, stands between two
\* emitted sections of a parsed diff.
C6_Witness ==
    /\ Parsed
    /\ Len(sections) = 3
    /\ Len(diffs) = 2
    /\ sections[2].body = "none"
    /\ ~FilteredOut(sections[2].path)

\* A hunk as the parser renders it: every line without its trailing
\* whitespace, ended by a line feed.
HunkRendered(hunk) ==
    Join([l \in 1..Len(hunk) |-> RStrip(hunk[l]) \o <<LF>>])

\* The letters carried by the content lines of the sections filtered out.
DiscardedTags == {Tag(sections[i].path) : i \in {j \in 1..Len(sections) :
                                                   FilteredOut(sections[j].path)}}

\* C7: the emitted FileDiffs are, in order, the sections not filtered out
\* that have a hunk, each with its own hunks and no others (a hunk being
\* compared as the parser renders its lines), and no content line of a
\* section filtered out occurs in any emitted hunk.
C7_DiscardedSectionsDoNotLeak ==
    Parsed =>
        LET em == EmittedSections
            tags == DiscardedTags
        IN
        /\ Len(diffs) = Len(em)
        /\ \A k \in 1..Len(diffs) :
              /\ k <= Len(em)
              /\ diffs[k].file = em[k].path
              /\ LET own == SectionHunks(em[k]) IN
                 [h \in 1..Len(diffs[k].hunks) |-> diffs[k].hunks[h].val]
                    = [h \in 1..Len(own) |-> HunkRendered(own[h])]
              /\ \A h \in 1..Len(diffs[k].hunks) :
                    \A c \in 1..Len(diffs[k].hunks[h].val) :
                        diffs[k].hunks[h].val[c] \notin tags

\* C7 witness: an emitted section, then a section with hunks that is filtered
\* out, then another emitted section.
C7_Witness ==
    /\ Parsed
    /\ Len(sections) = 3
    /\ ToEmit(sections[1]) /\ ToEmit(sections[3])
    /\ FilteredOut(sections[2].path) /\ sections[2].body = "two"
    /\ sections[1].path # sections[3].path
    /\ Len(diffs) = 2

\* C25: parsing a diff given as a string never raises: the empty string
\* gives the empty sequence, and any other text, a single line without a
\* newline included, gives a sequence of FileDiffs.
C25_ParseNeverRaises ==
    /\ dpc # "raised"
    /\ (dpc = "parsed" /\ diff_text = <<>>) => diffs = <<>>

-----------------------------------------------------------------------------
(* SpecCode: PythonCode with ClassVisitor and MethodVisitor                 *)
(*                                                                          *)
(* A source line is a record: its kind (a class header, a def header, a     *)
(* one-line statement, a blank line), the name it defines and its           *)
(* indentation in levels. ast.parse is computed from the lines: a block is  *)
(* the run of deeper lines after its header.                                *)

\* The number of lines of a source file.
MaxCodeLines == 5

ClassNames == {"A", "B"}
MethodNames == {"m", "n"}

BlankLine == [kind |-> "blank", name |-> "", ind |-> 0]

\* The lines a source file is written from.
CodeLineSet ==
    [kind : {"class"}, name : ClassNames, ind : {0, 1}]
    \cup [kind : {"def"}, name : MethodNames, ind : {1, 2}]
    \cup [kind : {"stmt"}, name : {""}, ind : {0, 1, 2, 3}]
    \cup {BlankLine}

IsHeader(l) == l.kind \in {"class", "def"}

Max(S) == CHOOSE x \in S : \A y \in S : x >= y
Min(S) == CHOOSE x \in S : \A y \in S : x <= y

\* The elements of a set of numbers, in increasing order.
SortedSeq(S) ==
    [k \in 1..Cardinality(S) |->
        CHOOSE e \in S : Cardinality({x \in S : x <= e}) = k]

\* The last line before line i that is not blank, 0 when there is none.
PrevCode(lines, i) ==
    Max({0} \cup {j \in 1..(i - 1) : lines[j].kind # "blank"})

\* The indentation rule of the grammar: the first statement is at level 0, the
\* line after a header is one level deeper, any other line is at the level of
\* the line before it or at an enclosing level.
IndentOK(lines) ==
    \A i \in 1..Len(lines) :
        lines[i].kind # "blank" =>
            LET p == PrevCode(lines, i) IN
            IF p = 0 THEN lines[i].ind = 0
            ELSE IF IsHeader(lines[p]) THEN lines[i].ind = lines[p].ind + 1
            ELSE lines[i].ind <= lines[p].ind

\* ast.parse(''.join(lines)) succeeds: the indentation rule holds and no
\* header is left without a body (else IndentationError, a SyntaxError).
AstParses(lines) ==
    /\ IndentOK(lines)
    /\ LET p == PrevCode(lines, Len(lines) + 1)
       IN  p = 0 \/ ~IsHeader(lines[p])

\* node.end_lineno of the class or function whose header is line i: the last
\* line of its block that is not blank.
EndLineno(lines, i) ==
    Max({j \in i..Len(lines) :
            /\ lines[j].kind # "blank"
            /\ \A t \in (i + 1)..j :
                   lines[t].kind = "blank" \/ lines[t].ind > lines[i].ind})

\* [n for n in node.body if isinstance(n, ast.FunctionDef)]: the lines of the
\* function definitions that are immediate children of the class at line i.
BodyDefs(lines, i) ==
    SortedSeq({t \in (i + 1)..EndLineno(lines, i) :
                  lines[t].kind = "def" /\ lines[t].ind = lines[i].ind + 1})

\* The class headers in the order the visitors reach them: generic_visit goes
\* through every node in source order, into functions and classes alike.
ClassDefs(lines) ==
    SortedSeq({i \in 1..Len(lines) : lines[i].kind = "class"})

\* ClassVisitor.visit(tree).classes
VisitClasses(lines) ==
    [k \in 1..Len(ClassDefs(lines)) |->
        LET i == ClassDefs(lines)[k] IN
        [name |-> lines[i].name,
         methods |-> [d \in 1..Len(BodyDefs(lines, i)) |->
                         lines[BodyDefs(lines, i)[d]].name],
         lineno |-> i,
         end_lineno |-> EndLineno(lines, i)]]

\* MethodVisitor.visit(tree).methods: each class visited appends its immediate
\* function definitions, then its children are visited.
VisitMethods(lines) ==
    Join([k \in 1..Len(ClassDefs(lines)) |->
             LET i == ClassDefs(lines)[k] IN
             [d \in 1..Len(BodyDefs(lines, i)) |->
                 [name |-> lines[BodyDefs(lines, i)[d]].name,
                  lineno |-> BodyDefs(lines, i)[d],
                  end_lineno |-> EndLineno(lines, BodyDefs(lines, i)[d])]]])

\* seq[a:b] of Python for 0 <= a: the elements a+1 to b, as many as exist.
PySlice(seq, a, b) ==
    SubSeq(seq, a + 1, IF b < Len(seq) THEN b ELSE Len(seq))

\* The positions in self.classes of the classes called name.
ClassHits(cls, name) == {k \in 1..Len(cls) : cls[k].name = name}

\* What a lookup gives: the exception raised ("none" when it returned), and
\* the parts of the value returned.
Returned(code, methods, value) ==
    [raised |-> "none", code |-> code, methods |-> methods, value |-> value]
RaisedError(type) ==
    [raised |-> type, code |-> <<>>, methods |-> <<>>, value |-> <<>>]
None == <<"None">>

\* The mutant of FirstMatch: the last class of that name.
LastMatch(cls, name) == Max(ClassHits(cls, name))

\* for c in self.classes: if c['name'] == name: ... return: the class a lookup
\* stops at is the first of that name in the index.
FirstMatch(cls, name) == Min(ClassHits(cls, name))

\* PythonCode.get_class_methods(name)
GetClassMethods(lines, cls, name) ==
    IF ClassHits(cls, name) = {} THEN RaisedError("ValueError")
    ELSE LET c == cls[FirstMatch(cls, name)]
             class_code_list == PySlice(lines, c.lineno - 1, c.end_lineno + 1)
         IN  IF ~AstParses(class_code_list) THEN RaisedError("SyntaxError")
             ELSE Returned(class_code_list, VisitMethods(class_code_list), <<>>)

\* res[m['name']] = ... for m in visitor.methods: the text kept for a name is
\* that of the last method of that name.
MethodMap(code, methods) ==
    [n \in {methods[k].name : k \in 1..Len(methods)} |->
        LET m == methods[Max({k \in 1..Len(methods) : methods[k].name = n})]
        IN  PySlice(code, m.lineno - 1, m.end_lineno + 1)]

\* PythonCode.get_class_string(name, methods_flag)
GetClassString(lines, cls, name, methods_flag) ==
    IF methods_flag
    THEN LET r == GetClassMethods(lines, cls, name)
         IN  IF r.raised # "none" THEN r
             ELSE Returned(r.code, r.methods, MethodMap(r.code, r.methods))
    ELSE IF ClassHits(cls, name) = {} THEN Returned(<<>>, <<>>, None)
    ELSE LET c == cls[FirstMatch(cls, name)]
         IN  Returned(<<>>, <<>>, PySlice(lines, c.lineno - 1, c.end_lineno + 1))

InitCode ==
    /\ code_lines = <<>>
    /\ classes = <<>>
    /\ cpc = "edit"
    /\ ccall = <<>>
    /\ cresult = Unset
    /\ RunIdle /\ DiffIdle /\ ExtractIdle /\ CtxIdle /\ ChatIdle /\ QueryIdle

\* The source file is written: one more line, under the indentation rule and
\* with no two blank lines in a row.
WriteLine(l) ==
    /\ cpc = "edit"
    /\ Len(code_lines) < MaxCodeLines
    /\ IndentOK(Append(code_lines, l))
    /\ ~(l = BlankLine /\ code_lines # <<>>
           /\ code_lines[Len(code_lines)] = BlankLine)
    /\ code_lines' = Append(code_lines, l)
    /\ UNCHANGED <<classes, cpc, ccall, cresult>>
    /\ UNCHANGED <<runVars, diffVars, extractVars, ctxVars, chatVars, queryVars>>

\* PythonCode.__init__: from_file, then set_classes (ast.parse may raise).
LoadCode ==
    /\ cpc = "edit"
    /\ IF AstParses(code_lines)
       THEN /\ classes' = VisitClasses(code_lines)
            /\ cpc' = "loaded"
       ELSE /\ cpc' = "load_failed"
            /\ UNCHANGED classes
    /\ UNCHANGED <<code_lines, ccall, cresult>>
    /\ UNCHANGED <<runVars, diffVars, extractVars, ctxVars, chatVars, queryVars>>

\* The names looked up: the class names and one that no class has.
LookupNames == ClassNames \cup {"Z"}

\* A call of get_class_methods(name)
CallGetClassMethods(name) ==
    /\ cpc = "loaded"
    /\ ccall' = [op |-> "get_class_methods", name |-> name, methods_flag |-> FALSE]
    /\ cresult' = GetClassMethods(code_lines, classes, name)
    /\ cpc' = "called"
    /\ UNCHANGED <<code_lines, classes>>
    /\ UNCHANGED <<runVars, diffVars, extractVars, ctxVars, chatVars, queryVars>>

\* A call of get_class_string(name, methods_flag)
CallGetClassString(name, methods_flag) ==
    /\ cpc = "loaded"
    /\ ccall' = [op |-> "get_class_string", name |-> name,
                 methods_flag |-> methods_flag]
    /\ cresult' = GetClassString(code_lines, classes, name, methods_flag)
    /\ cpc' = "called"
    /\ UNCHANGED <<code_lines, classes>>
    /\ UNCHANGED <<runVars, diffVars, extractVars, ctxVars, chatVars, queryVars>>

NextCode ==
    \/ \E l \in CodeLineSet : WriteLine(l)
    \/ LoadCode
    \/ \E name \in LookupNames : CallGetClassMethods(name)
    \/ \E name \in LookupNames, flag \in BOOLEAN : CallGetClassString(name, flag)

SpecCode == InitCode /\ [][NextCode]_vars

-----------------------------------------------------------------------------
(* Claims about the structure index *)

\* The class a lookup by name resolves to.
LookedUpClass == classes[Min(ClassHits(classes, ccall.name))]

\* C9: when get_class_methods returns, every method span it carries is in the
\* numbering of the file: line lineno of the file is the def header of that
\* name, inside the span of the class, and end_lineno is the last line of that
\* function in the file.
C9_MethodLinesAbsolute ==
    (cpc = "called" /\ ccall.op = "get_class_methods" /\ cresult.raised = "none")
    => \A k \in 1..Len(cresult.methods) :
           LET m == cresult.methods[k] IN
           /\ m.lineno \in LookedUpClass.lineno..LookedUpClass.end_lineno
           /\ code_lines[m.lineno].kind = "def"
           /\ code_lines[m.lineno].name = m.name
           /\ m.end_lineno = EndLineno(code_lines, m.lineno)

\* C10: a lookup by a name that no indexed class has raises the
\* class-not-found error (ValueError), whichever the operation.
C10_UnknownClassRaises ==
    (cpc = "called" /\ ClassHits(classes, ccall.name) = {})
    => cresult.raised = "ValueError"

\* C22: in every loaded file each indexed class has end_lineno >= lineno and
\* no line belongs to the spans of two distinct indexed classes, nested
\* classes included.
C22_SpansDisjoint ==
    (cpc \in {"loaded", "called"}) =>
        \A j \in 1..Len(classes) :
            /\ classes[j].end_lineno >= classes[j].lineno
            /\ \A k \in 1..Len(classes) :
                   j # k => \/ classes[j].end_lineno < classes[k].lineno
                            \/ classes[k].end_lineno < classes[j].lineno

\* The lines lineno to end_lineno of the file, both included.
SpanLines(c) == PySlice(code_lines, c.lineno - 1, c.end_lineno)

\* C23: the whole-class text of an indexed class (get_class_string without
\* methods, and the class code get_class_methods returns) is exactly the
\* lines of the file from lineno to end_lineno, both included, and nothing
\* after them.
C23_ClassTextExact ==
    (cpc = "called" /\ ClassHits(classes, ccall.name) # {}) =>
        /\ (ccall.op = "get_class_string" /\ ~ccall.methods_flag)
               => cresult.value = SpanLines(LookedUpClass)
        /\ (ccall.op = "get_class_methods" /\ cresult.raised = "none")
               => cresult.code = SpanLines(LookedUpClass)

\* The lines a lookup reads for the class record c.
LookupText(c) == PySlice(code_lines, c.lineno - 1, c.end_lineno + 1)

\* C24: when several indexed classes have the name looked up, each lookup
\* (get_class_methods, get_class_string with and without methods) works on
\* the first of them in the file: the text it returns is the text read at the
\* first class, its methods and its method map are those of that text, and it
\* fails only when that text does not parse.
C24_FirstOccurrence ==
    (cpc = "called" /\ Cardinality(ClassHits(classes, ccall.name)) >= 2) =>
        LET text == LookupText(classes[Min(ClassHits(classes, ccall.name))])
        IN  IF ccall.op = "get_class_string" /\ ~ccall.methods_flag
            THEN cresult.value = text
            ELSE IF cresult.raised = "none"
            THEN /\ cresult.code = text
                 /\ cresult.methods = VisitMethods(text)
                 /\ ccall.methods_flag
                        => cresult.value = MethodMap(text, cresult.methods)
            ELSE cresult.raised = "SyntaxError" /\ ~AstParses(text)

\* C24 witness: get_class_methods returned for a name that two classes have,
\* and the text of the later class is another one.
C24_Witness ==
    /\ cpc = "called" /\ ccall.op = "get_class_methods"
    /\ cresult.raised = "none"
    /\ Cardinality(ClassHits(classes, ccall.name)) = 2
    /\ cresult.code # LookupText(classes[Max(ClassHits(classes, ccall.name))])

\* C28: the methods get_class_methods enumerates for a class, and the keys of
\* the map get_class_string gives with methods, are exactly the function
\* definitions that are immediate children of that class.
C28_ImmediateMethodsOnly ==
    (/\ cpc = "called" /\ cresult.raised = "none"
     /\ (ccall.op = "get_class_methods" \/ ccall.methods_flag)) =>
        /\ Len(cresult.methods) = Len(LookedUpClass.methods)
        /\ \A k \in 1..Len(cresult.methods) :
               cresult.methods[k].name = LookedUpClass.methods[k]
        /\ ccall.methods_flag =>
               DOMAIN cresult.value =
                   {LookedUpClass.methods[k] :
                        k \in 1..Len(LookedUpClass.methods)}

-----------------------------------------------------------------------------
(* SpecRun: make_code_files, make_prompts and _run of CoreMigrate, with the *)
(* run_single call and the CoreCodeFile pipeline of every task              *)

\* The number of files of a run.
MaxFiles == 3

\* What the environment does to a file's pipeline: nothing ("ok"), or the step
\* at which it raises: reading or parsing the source ("load"), the chatter
\* ("query"), response.to_json ("extract"), writing the destination ("save").
Outcomes == {"ok", "load", "query", "extract", "save"}

Range(s) == {s[i] : i \in 1..Len(s)}

\* The content of the response the chatter returns for file f: a tagged block
\* holding f characters, after a line of prose.
ResponseOf(f) ==
    <<"o", "k", "\n">> \o PYFENCE \o [i \in 1..f |-> "x"] \o FENCE

\* The exception a failing step of file f raises.
Raised(type, f) == [type |-> type, file |-> f]

\* The mutant of RaisedExc: the two branches exchanged.
RaisedExcSwapped(d, E) ==
    IF d THEN Raised("TypeError", E.file) ELSE E

\* run_single, line 59: raise E if self.die else print(errormsg). The
\* conditional expression is the operand of raise: with die the operand is E;
\* without it the operand is the value of print(errormsg), None, and raising
\* None raises a TypeError.
RaisedExc(d, E) ==
    IF d THEN E ELSE Raised("TypeError", E.file)

\* errormsg = f"Could not parse {code_file.file}: {E}"
ErrorMsg(f, E) == [file |-> f, error |-> E.type]

InitRun ==
    /\ die \in BOOLEAN /\ parallel \in BOOLEAN /\ save \in BOOLEAN
    /\ \E n \in 0..MaxFiles :
          /\ files = [i \in 1..n |-> i]
          /\ env \in [1..n -> Outcomes]
          /\ stage = [f \in 1..n |-> "Created"]
          /\ response = [f \in 1..n |-> Unset]
          /\ new_str = [f \in 1..n |-> Unset]
          /\ dest = [f \in 1..n |-> Unset]
          /\ tpc = [f \in 1..n |-> "idle"]
          /\ caught = [f \in 1..n |-> NoExc]
          /\ nquery = [f \in 1..n |-> 0]
    /\ pc = "make_code_files"
    /\ exc = NoExc
    /\ code_files = <<>>
    /\ errors = <<>>
    /\ idx = 0
    /\ reported = FALSE
    /\ DiffIdle /\ ExtractIdle /\ CodeIdle /\ CtxIdle /\ ChatIdle /\ QueryIdle

\* The files whose load (CoreCodeFile.__init__ -> process_code -> PythonCode)
\* raises, by their position in self.files.
LoadFailures == {i \in 1..Len(files) : env[files[i]] = "load"}

\* The mutant of NoFiles: the test for an empty list is left out.
NoFilesUntested(fs) == FALSE

\* make_code_files, line 24: if not len(self.files)
NoFiles(fs) == Len(fs) = 0

\* CoreMigrate.make_code_files: no file raises FileNotFoundError; otherwise a
\* task is constructed, and so loaded, for each file in turn, and the first
\* load that raises leaves the method (nothing catches it).
MakeCodeFiles ==
    /\ pc = "make_code_files"
    /\ IF NoFiles(files)
       THEN /\ pc' = "raised"
            /\ exc' = Raised("FileNotFoundError", 0)
            /\ UNCHANGED <<code_files, stage>>
       ELSE IF LoadFailures = {}
       THEN /\ code_files' = files
            /\ stage' = [f \in DOMAIN stage |-> "Loaded"]
            /\ pc' = "make_prompts"
            /\ UNCHANGED exc
       ELSE /\ code_files' = SubSeq(files, 1, Min(LoadFailures) - 1)
            /\ stage' = [f \in DOMAIN stage |->
                            IF f \in Range(SubSeq(files, 1, Min(LoadFailures) - 1))
                            THEN "Loaded" ELSE stage[f]]
            /\ pc' = "raised"
            /\ exc' = Raised("LoadError", files[Min(LoadFailures)])
    /\ UNCHANGED <<die, parallel, save, files, env, response, new_str, dest,
                   errors, idx, tpc, caught, nquery, reported>>
    /\ UNCHANGED <<diffVars, extractVars, codeVars, ctxVars, chatVars, queryVars>>

\* make_prompts: code_file.make_prompt for every task.
MakePrompts ==
    /\ pc = "make_prompts"
    /\ stage' = [f \in DOMAIN stage |-> "Prompted"]
    /\ pc' = "_run"
    /\ UNCHANGED <<die, parallel, save, files, env, exc, code_files, response,
                   new_str, dest, errors, idx, tpc, caught, nquery, reported>>
    /\ UNCHANGED <<diffVars, extractVars, codeVars, ctxVars, chatVars, queryVars>>

\* _run, lines 68-83: the encoder and the chatter, the length assertion, the
\* timer, then the parallel or the sequential branch.
RunBegin ==
    /\ pc = "_run"
    /\ Len(code_files) = Len(files)
    /\ pc' = IF parallel THEN "parallel" ELSE "loop"
    /\ idx' = 1
    /\ UNCHANGED <<die, parallel, save, files, env, exc, code_files, stage,
                   response, new_str, dest, errors, tpc, caught, nquery,
                   reported>>
    /\ UNCHANGED <<diffVars, extractVars, codeVars, ctxVars, chatVars, queryVars>>

\* Whether run_single(f) is the call in progress: the current iteration of the
\* sequential loop, or any task handed to sc.parallelize.
Active(f) ==
    \/ pc = "loop" /\ idx <= Len(code_files) /\ code_files[idx] = f
    \/ pc = "parallel" /\ f \in Range(code_files)

\* The loop index after run_single returned.
IdxAfterReturn == IF parallel THEN idx ELSE idx + 1

\* The mutant of OnException: the call of code_file.run is made again.
OnExceptionRetry == "idle"

\* run_single, lines 54-56: an exception of code_file.run goes to the except
\* clause; no loop is around the try statement.
OnException == "except"

\* The mutant of StepAfter: run saves before it parses the response.
StepAfterSaveFirst(step, sv) ==
    IF step = "run_query" THEN (IF sv THEN "save" ELSE "parse_response")
    ELSE IF step = "save" THEN "parse_response"
    ELSE "returned"

\* CoreCodeFile.run, lines 180-184: run_query, then parse_response, then save
\* if save is on, then the return.
StepAfter(step, sv) ==
    IF step = "run_query" THEN "parse_response"
    ELSE IF step = "parse_response" THEN (IF sv THEN "save" ELSE "returned")
    ELSE "returned"

\* CoreCodeFile.run_query: self.response = chatter(self.prompt).
RunQuery(f) ==
    /\ Active(f)
    /\ tpc[f] = "idle"
    /\ nquery' = [nquery EXCEPT ![f] = @ + 1]
    /\ IF env[f] = "query"
       THEN /\ caught' = [caught EXCEPT ![f] = Raised("QueryError", f)]
            /\ tpc' = [tpc EXCEPT ![f] = OnException]
            /\ stage' = [stage EXCEPT ![f] = "Failed"]
            /\ UNCHANGED response
       ELSE /\ response' = [response EXCEPT ![f] = ResponseOf(f)]
            /\ tpc' = [tpc EXCEPT ![f] = StepAfter("run_query", save)]
            /\ stage' = [stage EXCEPT ![f] = "Queried"]
            /\ UNCHANGED caught
    /\ UNCHANGED <<die, parallel, save, files, env, pc, exc, code_files,
                   new_str, dest, errors, idx, reported>>
    /\ UNCHANGED <<diffVars, extractVars, codeVars, ctxVars, chatVars, queryVars>>

\* CoreCodeFile.parse_response, then (CoreCodeFile.run) the return when
\* save is off.
ParseTaskResponse(f) ==
    /\ Active(f)
    /\ tpc[f] = "parse_response"
    /\ IF env[f] = "extract"
       THEN /\ caught' = [caught EXCEPT ![f] = Raised("ExtractError", f)]
            /\ tpc' = [tpc EXCEPT ![f] = OnException]
            /\ stage' = [stage EXCEPT ![f] = "Failed"]
            /\ UNCHANGED <<new_str, idx>>
       ELSE /\ new_str' = [new_str EXCEPT ![f] = ParseResponseCore(response[f])]
            /\ stage' = [stage EXCEPT ![f] = "Extracted"]
            /\ tpc' = [tpc EXCEPT ![f] = StepAfter("parse_response", save)]
            /\ idx' = IF save THEN idx ELSE IdxAfterReturn
            /\ UNCHANGED caught
    /\ UNCHANGED <<die, parallel, save, files, env, pc, exc, code_files,
                   response, dest, errors, nquery, reported>>
    /\ UNCHANGED <<diffVars, extractVars, codeVars, ctxVars, chatVars, queryVars>>

\* CoreCodeFile.save, then the return of run and of run_single.
SaveTask(f) ==
    /\ Active(f)
    /\ tpc[f] = "save"
    /\ IF env[f] = "save"
       THEN /\ caught' = [caught EXCEPT ![f] = Raised("SaveError", f)]
            /\ tpc' = [tpc EXCEPT ![f] = OnException]
            /\ stage' = [stage EXCEPT ![f] = "Failed"]
            /\ UNCHANGED <<dest, idx>>
       ELSE /\ dest' = [dest EXCEPT ![f] = new_str[f]]
            /\ stage' = [stage EXCEPT ![f] = "Saved"]
            /\ tpc' = [tpc EXCEPT ![f] = StepAfter("save", save)]
            /\ idx' = IdxAfterReturn
            /\ UNCHANGED caught
    /\ UNCHANGED <<die, parallel, save, files, env, pc, exc, code_files,
                   response, new_str, errors, nquery, reported>>
    /\ UNCHANGED <<diffVars, extractVars, codeVars, ctxVars, chatVars, queryVars>>

\* The mutant of ErrorsAppend: an append that writes over the last entry.
ErrorsAppendOver(es, msg) ==
    IF es = <<>> THEN <<msg>> ELSE [es EXCEPT ![Len(es)] = msg]

\* self.errors.append(errormsg): list.append is one atomic operation, also
\* between threads.
ErrorsAppend(es, msg) == Append(es, msg)

\* run_single, lines 56-58: the except clause appends the message.
AppendError(f) ==
    /\ Active(f)
    /\ tpc[f] = "except"
    /\ errors' = ErrorsAppend(errors, ErrorMsg(f, caught[f]))
    /\ tpc' = [tpc EXCEPT ![f] = "raise"]
    /\ UNCHANGED <<die, parallel, save, files, env, pc, exc, code_files, stage,
                   response, new_str, dest, idx, caught, nquery, reported>>
    /\ UNCHANGED <<diffVars, extractVars, codeVars, ctxVars, chatVars, queryVars>>

\* run_single, line 59: the raise statement. In the sequential loop the
\* exception leaves _run and run; in a worker thread it ends the task.
RaiseSingle(f) ==
    /\ Active(f)
    /\ tpc[f] = "raise"
    /\ tpc' = [tpc EXCEPT ![f] = "raised"]
    /\ caught' = [caught EXCEPT ![f] = RaisedExc(die, caught[f])]
    /\ IF parallel
       THEN UNCHANGED <<pc, exc>>
       ELSE /\ pc' = "raised"
            /\ exc' = RaisedExc(die, caught[f])
    /\ UNCHANGED <<die, parallel, save, files, env, code_files, stage,
                   response, new_str, dest, errors, idx, nquery, reported>>
    /\ UNCHANGED <<diffVars, extractVars, codeVars, ctxVars, chatVars, queryVars>>

\* sc.parallelize(..., parallelizer="thread"): once a task has raised, the pool
\* may drop a task it has not started yet.
PoolCancel(f) ==
    /\ pc = "parallel"
    /\ f \in Range(code_files)
    /\ tpc[f] = "idle"
    /\ \E g \in Range(code_files) : tpc[g] = "raised"
    /\ tpc' = [tpc EXCEPT ![f] = "cancelled"]
    /\ UNCHANGED <<die, parallel, save, files, env, pc, exc, code_files, stage,
                   response, new_str, dest, errors, idx, caught, nquery,
                   reported>>
    /\ UNCHANGED <<diffVars, extractVars, codeVars, ctxVars, chatVars, queryVars>>

\* The tasks of the pool that raised, by position.
RaisedTasks == {i \in 1..Len(code_files) : tpc[code_files[i]] = "raised"}

\* sc.parallelize returns when every task has ended: it re-raises the
\* exception of the first task that raised, else _run goes on to line 86.
PoolJoin ==
    /\ pc = "parallel"
    /\ \A f \in Range(code_files) : tpc[f] \in {"returned", "raised", "cancelled"}
    /\ IF RaisedTasks = {}
       THEN /\ reported' = TRUE
            /\ pc' = "done"
            /\ UNCHANGED exc
       ELSE /\ pc' = "raised"
            /\ exc' = caught[code_files[Min(RaisedTasks)]]
            /\ UNCHANGED reported
    /\ UNCHANGED <<die, parallel, save, files, env, code_files, stage,
                   response, new_str, dest, errors, idx, tpc, caught, nquery>>
    /\ UNCHANGED <<diffVars, extractVars, codeVars, ctxVars, chatVars, queryVars>>

\* _run, line 86: after the sequential loop, self.timer.toc("Total time").
Report ==
    /\ pc = "loop"
    /\ idx > Len(code_files)
    /\ reported' = TRUE
    /\ pc' = "done"
    /\ UNCHANGED <<die, parallel, save, files, env, exc, code_files, stage,
                   response, new_str, dest, errors, idx, tpc, caught, nquery>>
    /\ UNCHANGED <<diffVars, extractVars, codeVars, ctxVars, chatVars, queryVars>>

NextRun ==
    \/ MakeCodeFiles
    \/ MakePrompts
    \/ RunBegin
    \/ \E f \in 1..MaxFiles : RunQuery(f)
    \/ \E f \in 1..MaxFiles : ParseTaskResponse(f)
    \/ \E f \in 1..MaxFiles : SaveTask(f)
    \/ \E f \in 1..MaxFiles : AppendError(f)
    \/ \E f \in 1..MaxFiles : RaiseSingle(f)
    \/ \E f \in 1..MaxFiles : PoolCancel(f)
    \/ PoolJoin
    \/ Report

SpecRun == InitRun /\ [][NextRun]_vars

-----------------------------------------------------------------------------
(* Claims about the orchestrator *)

\* The run has ended: run() returned or an exception left it.
RunEnded == pc \in {"done", "raised"}

\* Whether the pipeline of file f raises in run_single under this run's flags.
TaskFails(f) == env[f] \in {"query", "extract"} \/ (env[f] = "save" /\ save)

\* The stage a task that does not fail ends in.
FinalStage == IF save THEN "Saved" ELSE "Extracted"

\* C1: with die = false, when the run has ended and some task's query,
\* extraction or save raised, every task that does not fail itself has run to
\* completion (and is saved when save = true) and every failing task is in the
\* error list.
C1_FailureDoesNotAbortBatch ==
    (/\ ~die
     /\ RunEnded
     /\ files # <<>>
     /\ LoadFailures = {}
     /\ \E f \in Range(files) : TaskFails(f))
    => \A f \in Range(files) :
             IF TaskFails(f)
             THEN \E i \in 1..Len(errors) : errors[i].file = f
             ELSE stage[f] = FinalStage

\* C2: with die = false and save = true, when the run of a batch of two or
\* more files has ended and exactly one file's load failed (no other step of any file fails), every other file
\* is saved and the error list is exactly one entry naming the failing file.
C2_LoadFailureIsolated ==
    (/\ ~die /\ save
     /\ RunEnded
     /\ Len(files) >= 2
     /\ Cardinality(LoadFailures) = 1
     /\ \A i \in 1..Len(files) : env[files[i]] \in {"ok", "load"})
    => /\ \A i \in 1..Len(files) :
             i \notin LoadFailures => stage[files[i]] = "Saved"
       /\ Len(errors) = 1
       /\ errors[1].file = files[Min(LoadFailures)]

\* The exceptions a step of a task's pipeline raises.
TaskExcTypes == {"QueryError", "ExtractError", "SaveError"}

\* C3: with die = true in sequential execution, a task about to leave
\* run_single by the raise statement already has its message as the last entry
\* of the error list; once it has raised, the exception that left the run is
\* the task's original exception; and from the moment a task failed, no task
\* after it in the list is ever queried or saved.
C3_DieReraisesAndStops ==
    (die /\ ~parallel) =>
        \A k \in 1..Len(code_files) :
            LET f == code_files[k] IN
            /\ tpc[f] \in {"raise", "raised"} =>
                  /\ errors # <<>>
                  /\ errors[Len(errors)].file = f
                  /\ errors[Len(errors)].error \in TaskExcTypes
            /\ tpc[f] = "raised" =>
                  /\ pc = "raised"
                  /\ exc.file = f
                  /\ exc.type \in TaskExcTypes
                  /\ exc.type = errors[Len(errors)].error
            /\ stage[f] = "Failed" =>
                  \A j \in (k + 1)..Len(code_files) :
                      /\ nquery[code_files[j]] = 0
                      /\ stage[code_files[j]] = "Prompted"
                      /\ dest[code_files[j]] = Unset

\* C3 witness: die = true, sequential; a task that is not the last one failed,
\* its exception left the run, and an earlier task had been saved.
C3_Witness ==
    /\ die /\ ~parallel /\ save
    /\ pc = "raised"
    /\ \E k \in 2..(Len(code_files) - 1) :
          /\ tpc[code_files[k]] = "raised"
          /\ exc = Raised("QueryError", code_files[k])
          /\ stage[code_files[1]] = "Saved"
          /\ env[code_files[k + 1]] = "ok"

\* C14: a run ends with the report (the total elapsed time and the error
\* list): when a run in which die = true made a task's error abort the
\* execution has ended, the report step was reached.
C14_RunAlwaysReports ==
    (RunEnded /\ die /\ errors # <<>>) => reported

\* The tasks that failed: a step of their pipeline raised.
FailedTasks == {f \in Range(code_files) : stage[f] = "Failed"}

\* C17: in parallel execution with die = false, when the run has ended the
\* error list has exactly one entry for each task that failed and no other
\* entry: as many entries as failed tasks, whatever the interleaving.
C17_NoLostAppend ==
    (parallel /\ ~die /\ RunEnded) =>
        /\ Len(errors) = Cardinality(FailedTasks)
        /\ \A f \in FailedTasks :
               Cardinality({i \in 1..Len(errors) : errors[i].file = f}) = 1
        /\ \A i \in 1..Len(errors) : errors[i].file \in FailedTasks

\* C17 witness: a parallel run with die = false has ended, two tasks failed,
\* and the later one in the list appended its message first.
C17_Witness ==
    /\ parallel /\ ~die /\ RunEnded
    /\ Cardinality(FailedTasks) >= 2
    /\ Len(errors) >= 2
    /\ errors[1].file > errors[2].file

\* The steps a task's stage may take.
StageEdges ==
    {<<"Created", "Loaded">>, <<"Loaded", "Prompted">>,
     <<"Prompted", "Queried">>, <<"Queried", "Extracted">>,
     <<"Extracted", "Saved">>,
     <<"Prompted", "Failed">>, <<"Queried", "Failed">>,
     <<"Extracted", "Failed">>}

\* C18: within a task the steps occur in the order load, prompt, query,
\* extract, save, none repeated (every change of a task's stage is one of the
\* edges); the destination is written only by a task whose response was
\* extracted, with the text extracted; a task whose query or extraction
\* failed is never Saved, its destination unwritten, its replacement unset.
C18_PipelineOrder ==
    /\ [](\A f \in DOMAIN stage :
             /\ dest[f] # Unset =>
                    stage[f] = "Saved" /\ new_str[f] # Unset /\ dest[f] = new_str[f]
             /\ stage[f] \in {"Extracted", "Saved"} =>
                    response[f] # Unset /\ new_str[f] # Unset
             /\ (stage[f] = "Failed" /\ env[f] \in {"query", "extract"}) =>
                    dest[f] = Unset /\ new_str[f] = Unset)
    /\ [][\A f \in DOMAIN stage :
             /\ stage'[f] # stage[f] => <<stage[f], stage'[f]>> \in StageEdges
             /\ dest'[f] # dest[f] => stage[f] = "Extracted"
             /\ nquery'[f] # nquery[f] => stage[f] = "Prompted"
             /\ new_str'[f] # new_str[f] => stage[f] = "Queried"]_vars

\* C18 witness: one task went through every step and is saved with the text
\* extracted from its response; another failed in the extraction, after its
\* query, and has no replacement text and no destination.
C18_Witness ==
    \E f, g \in DOMAIN stage :
        /\ stage[f] = "Saved" /\ dest[f] = ParseResponseCore(response[f])
        /\ nquery[f] = 1
        /\ stage[g] = "Failed" /\ env[g] = "extract"
        /\ response[g] # Unset /\ new_str[g] = Unset /\ dest[g] = Unset

\* C19: in one run the chatter is called at most once for each task, and a
\* task whose query failed was queried exactly once and is not queried again.
C19_AtMostOneQuery ==
    \A f \in DOMAIN nquery :
        /\ nquery[f] <= 1
        /\ (stage[f] = "Failed" /\ env[f] = "query") => nquery[f] = 1
        /\ response[f] # Unset => nquery[f] = 1

\* C19 witness: a parallel run with die = false has ended; a task's query
\* failed after one call, and another task was queried once with success.
C19_Witness ==
    /\ parallel /\ ~die /\ RunEnded
    /\ \E f, g \in DOMAIN nquery :
          /\ env[f] = "query" /\ stage[f] = "Failed" /\ nquery[f] = 1
          /\ tpc[f] = "raised"
          /\ response[g] # Unset /\ nquery[g] = 1

\* C20: when discovery yields no files, the run does not get past
\* make_code_files: it ends there with the no-files error
\* (FileNotFoundError), with no task constructed, no prompt made, no call of
\* the chatter, no destination written, and nothing after it is executed.
C20_NoFilesIsFatal ==
    files = <<>> =>
        /\ pc \in {"make_code_files", "raised"}
        /\ pc = "raised" => exc.type = "FileNotFoundError"
        /\ code_files = <<>> /\ errors = <<>> /\ ~reported
        /\ \A f \in DOMAIN stage :
               stage[f] = "Created" /\ nquery[f] = 0 /\ dest[f] = Unset

\* C20 witness: a run over no files has ended with the no-files error.
C20_Witness ==
    /\ files = <<>>
    /\ pc = "raised"
    /\ exc = Raised("FileNotFoundError", 0)

\* The position of the first task whose pipeline raises, one past the last
\* task when none does.
FirstFailure ==
    LET F == {i \in 1..Len(files) : TaskFails(files[i])}
    IN  IF F = {} THEN Len(files) + 1 ELSE Min(F)

\* What the sequential loop with die = false leaves for the task at position
\* i: the tasks before the first failure are complete, the failing one has
\* got as far as the step that raised, the ones after it were not started.
SeqNewStr(i) ==
    IF i < FirstFailure \/ (i = FirstFailure /\ env[files[i]] = "save")
    THEN ParseResponseCore(ResponseOf(files[i])) ELSE Unset
SeqDest(i) ==
    IF i < FirstFailure /\ save
    THEN ParseResponseCore(ResponseOf(files[i])) ELSE Unset
SeqErrorFiles ==
    IF FirstFailure > Len(files) THEN {} ELSE {files[FirstFailure]}

\* C29: with die = false, the run of a task list under given chat outcomes
\* ends, in parallel as in sequential execution, in the final state the
\* sequential execution gives: the same text at each destination, the same
\* new_str of each task, the same set of error entries.
C29_ParallelAsSequential ==
    (~die /\ RunEnded /\ LoadFailures = {}) =>
        /\ \A i \in 1..Len(files) :
               /\ new_str[files[i]] = SeqNewStr(i)
               /\ dest[files[i]] = SeqDest(i)
        /\ {errors[j].file : j \in 1..Len(errors)} = SeqErrorFiles

-----------------------------------------------------------------------------
(* SpecContext: run() of the three strategies up to the start of the tasks: *)
(* MigrateDiff (make_diff, parse_diff), MigrateRepo (get_repo_files),       *)
(* MigrateOOB, then make_code_files, make_prompts and the head of _run      *)

\* The number of files to migrate in a run of a strategy.
MaxTasks == 2

\* A Python value of self.diff: None, a string, or the list of lines that
\* readlines() gives (held by the text the lines make up).
Py(kind, text) == [kind |-> kind, text |-> text]
PyNone == Py("None", <<>>)

\* bool(v) of Python: None, the empty string and the empty list are false.
Truthy(v) == v.kind # "None" /\ v.text # <<>>

\* The diffs a user supplies, as text or as the content of a diff file, and
\* the one git computes between v_from and v_to.
DiffOne == DiffText(<< [path |-> PathA, body |-> "one"] >>)
DiffTwo == DiffText(<< [path |-> PathB, body |-> "two"],
                       [path |-> PathC, body |-> "one"] >>)
RepoDiff == DiffText(<< [path |-> PathA, body |-> "two"] >>)

\* What the library is checked out at: a revision, on a branch or detached.
Checkout(rev, branch) == [rev |-> rev, branch |-> branch]

\* The constructor arguments of a strategy and the environment they meet.
\* library: a module, or the folder of the cloned repository as a string
\* ("str") or as a path object ("path"; "missing": a path object that is no
\* directory). v_from_ok, v_to_ok: whether git resolves the
\* revision. model_known: whether tiktoken knows self.model.
DiffOptions ==
    [diff : {PyNone, Py("str", <<>>), Py("str", DiffOne), Py("str", DiffTwo)},
     diff_file : {PyNone, Py("file", <<>>), Py("file", DiffOne)},
     diff_speed : BOOLEAN,
     library : {"module", "str", "path", "missing"},
     v_from_ok : BOOLEAN, v_to_ok : BOOLEAN,
     model_known : BOOLEAN,
     nfiles : 0..MaxTasks,
     head : {Checkout("r0", "main"), Checkout("r0", "detached")}]

\* MigrateRepo and MigrateOOB take no diff, diff_file or diff_speed.
NoDiffOptions ==
    {o \in DiffOptions :
        o.diff = PyNone /\ o.diff_file = PyNone /\ ~o.diff_speed}

\* MigrateOOB.__init__ line 83: the library is a string or a module.
OOBOptions == {o \in NoDiffOptions : o.library = "module"}

\* DEFAULT_INCLUDE and DEFAULT_EXCLUDE of migrate_diff.py
DEFAULT_INCLUDE == {<<"*", ".", "p", "y">>}
DEFAULT_EXCLUDE == {<<"_", "_", "i", "n", "i", "t", "_", "_", ".", "p", "y">>,
                    <<"s", "e", "t", "u", "p", ".", "p", "y">>}

\* The outcome of a method: the exception it raised ("none" when it returned)
\* and what it left in self.diff, in the checkout and in the record of the
\* reads, validations and git commands it made.
Outcome(raised, d, hd, eff) ==
    [raised |-> raised, diff |-> d, head |-> hd, effects |-> eff]

\* The parameters of get_python_files(source_dir, gitignore=False)
get_python_files_params == {"source_dir", "gitignore"}

\* Python raises TypeError for a call with a keyword the function does not
\* take.
CallAccepted(params, keywords) == keywords \subseteq params

\* aim.files.get_python_files(self.library, gitignore=True, filter=self.filter)
ListLibraryFiles ==
    CallAccepted(get_python_files_params, {"gitignore", "filter"})

\* git checkout <revision or commit hash>: HEAD is detached at it.
GitCheckout(rev) == Checkout(rev, "detached")

\* The git commands, as they are recorded in effects.
VerifyFrom == "git rev-parse --verify v_from"
VerifyTo == "git rev-parse --verify v_to"
RevParseHead == "git rev-parse HEAD"
CheckoutTo == "git checkout v_to"
CheckoutHead == "git checkout current_head"
GitDiffCmd == "git diff v_from v_to"
GitCommands ==
    {VerifyFrom, VerifyTo, RevParseHead, CheckoutTo, CheckoutHead, GitDiffCmd}

\* make_diff, lines 144-176: the branch of diff_speed, from the with statement.
MakeDiffSpeed(o, hd, eff) ==
    IF ~o.v_from_ok
    THEN Outcome("AssertionError", Py("str", <<>>), hd, eff \o <<VerifyFrom>>)
    ELSE IF ~o.v_to_ok
    THEN Outcome("AssertionError", Py("str", <<>>), hd,
                 eff \o <<VerifyFrom, VerifyTo>>)
    ELSE IF ~ListLibraryFiles
    THEN Outcome("TypeError", Py("str", <<>>), hd,
                 eff \o <<VerifyFrom, VerifyTo, RevParseHead>>)
    ELSE Outcome("none", Py("str", RepoDiff), GitCheckout(hd.rev),
                 eff \o <<VerifyFrom, VerifyTo, RevParseHead, CheckoutHead,
                          GitDiffCmd>>)

\* The mutant of MakeDiffWhole: the diff is run with no revision validated.
MakeDiffWholeUnverified(o, hd, eff) ==
    Outcome("none", Py("str", RepoDiff), hd, eff \o <<GitDiffCmd>>)

\* make_diff, lines 178-185: one diff of the whole repository.
MakeDiffWhole(o, hd, eff) ==
    IF ~o.v_from_ok
    THEN Outcome("AssertionError", o.diff, hd, eff \o <<VerifyFrom>>)
    ELSE IF ~o.v_to_ok
    THEN Outcome("AssertionError", o.diff, hd, eff \o <<VerifyFrom, VerifyTo>>)
    ELSE Outcome("none", Py("str", RepoDiff), hd,
                 eff \o <<VerifyFrom, VerifyTo, GitDiffCmd>>)

\* The mutant of MakeDiffOf: the diff file is looked at before the diff text.
MakeDiffFileFirst(o, hd) ==
    IF o.diff_file.kind # "None"
    THEN Outcome("none", Py("list", o.diff_file.text), hd, <<"open diff_file">>)
    ELSE IF Truthy(o.diff) THEN Outcome("none", o.diff, hd, <<>>)
    ELSE IF o.library = "missing"
    THEN Outcome("FileNotFoundError", o.diff, hd, <<"parse_library">>)
    ELSE IF o.diff_speed THEN MakeDiffSpeed(o, hd, <<"parse_library">>)
    ELSE MakeDiffWhole(o, hd, <<"parse_library">>)

\* MigrateDiff.make_diff
MakeDiffOf(o, hd) ==
    IF Truthy(o.diff) THEN Outcome("none", o.diff, hd, <<>>)
    ELSE IF o.diff_file.kind # "None"
    THEN Outcome("none", Py("list", o.diff_file.text), hd, <<"open diff_file">>)
    ELSE IF o.library = "missing"
    THEN Outcome("FileNotFoundError", o.diff, hd, <<"parse_library">>)
    ELSE IF o.diff_speed THEN MakeDiffSpeed(o, hd, <<"parse_library">>)
    ELSE MakeDiffWhole(o, hd, <<"parse_library">>)

\* MigrateRepo.get_repo_files
GetRepoFilesOf(o, hd) ==
    IF o.library = "missing"
    THEN Outcome("FileNotFoundError", PyNone, hd, <<"parse_library">>)
    ELSE IF ~o.v_to_ok
    THEN Outcome("AssertionError", PyNone, hd,
                 <<"parse_library", RevParseHead, CheckoutTo>>)
    ELSE IF ~ListLibraryFiles
    THEN Outcome("TypeError", PyNone, GitCheckout("v_to"),
                 <<"parse_library", RevParseHead, CheckoutTo>>)
    ELSE Outcome("none", PyNone, GitCheckout(hd.rev),
                 <<"parse_library", RevParseHead, CheckoutTo, CheckoutHead>>)

\* GitDiff.parse_git_diff(file, ...) for any value of file: what is not a
\* string goes to open(file), which raises TypeError for None and for a list.
ParseGitDiffArg(file, incl, excl) ==
    IF file.kind = "str" THEN ParseGitDiff(file.text, incl, excl)
    ELSE [raised |-> "TypeError", diffs |-> <<>>]

\* CoreMigrate.make_encoder: tiktoken.encoding_for_model raises KeyError for a
\* model it does not know, and the encoder is None.
MakeEncoderOf(o) == IF o.model_known THEN "tiktoken" ELSE "None"

\* len(encoder.encode(text)): the tokens of this model are the characters.
CountTokens(text) == Len(text)

\* CoreCodeFile.orig_str of the f-th file.
OrigStr(f) == [i \in 1..f |-> "c"]

\* base_prompt.format(code=self.orig_str, **prompt_kwargs): the context (the
\* diff, the library code, nothing) and the code.
PromptText(f, context) == context \o <<LF>> \o OrigStr(f)

\* CoreCodeFile.make_prompt: self.n_tokens
NTokens(enc, prompt) == IF enc # "None" THEN CountTokens(prompt) ELSE -1

\* The first step of run() in each strategy.
FirstStep(st) ==
    IF st = "diff" THEN "make_diff"
    ELSE IF st = "repo" THEN "make_encoder"
    ELSE "make_code_files"

InitContext ==
    /\ strategy \in {"diff", "repo", "oob"}
    /\ opts \in (IF strategy = "diff" THEN DiffOptions
                 ELSE IF strategy = "repo" THEN NoDiffOptions
                 ELSE OOBOptions)
    /\ apc = FirstStep(strategy)
    /\ self_diff = opts.diff
    /\ head = opts.head
    /\ effects = <<>>
    /\ git_diff = Unset
    /\ encoder = "None"
    /\ prompts = <<>>
    /\ n_tokens = <<>>
    /\ aexc = "none"
    /\ RunIdle /\ DiffIdle /\ ExtractIdle /\ CodeIdle /\ ChatIdle /\ QueryIdle

\* Where run() is after a step that returned (next) or raised.
StepTo(raised, next) ==
    /\ apc' = IF raised = "none" THEN next ELSE "raised"
    /\ aexc' = raised

\* MigrateDiff.run: self.make_diff()
MakeDiff ==
    /\ strategy = "diff" /\ apc = "make_diff"
    /\ LET r == MakeDiffOf(opts, head) IN
       /\ self_diff' = r.diff
       /\ head' = r.head
       /\ effects' = effects \o r.effects
       /\ StepTo(r.raised, "parse_diff")
    /\ UNCHANGED <<strategy, opts, git_diff, encoder, prompts, n_tokens>>
    /\ UNCHANGED <<runVars, diffVars, extractVars, codeVars, chatVars, queryVars>>

\* MigrateDiff.run: self.parse_diff()
RunParseDiff ==
    /\ strategy = "diff" /\ apc = "parse_diff"
    /\ LET r == ParseGitDiffArg(self_diff, DEFAULT_INCLUDE, DEFAULT_EXCLUDE) IN
       /\ git_diff' = IF r.raised = "none" THEN r.diffs ELSE git_diff
       /\ StepTo(r.raised, "make_code_files")
    /\ UNCHANGED <<strategy, opts, self_diff, head, effects, encoder, prompts,
                   n_tokens>>
    /\ UNCHANGED <<runVars, diffVars, extractVars, codeVars, chatVars, queryVars>>

\* MigrateRepo.run: self.make_encoder()
RepoMakeEncoder ==
    /\ strategy = "repo" /\ apc = "make_encoder"
    /\ encoder' = MakeEncoderOf(opts)
    /\ StepTo("none", "get_repo_files")
    /\ UNCHANGED <<strategy, opts, self_diff, head, effects, git_diff, prompts,
                   n_tokens>>
    /\ UNCHANGED <<runVars, diffVars, extractVars, codeVars, chatVars, queryVars>>

\* MigrateRepo.run: self.get_repo_files(). No call of it returns (the listing
\* of the library files raises), so run() gets no further in this strategy.
GetRepoFiles ==
    /\ strategy = "repo" /\ apc = "get_repo_files"
    /\ LET r == GetRepoFilesOf(opts, head) IN
       /\ head' = r.head
       /\ effects' = effects \o r.effects
       /\ StepTo(r.raised, "parse_repo_files")
    /\ UNCHANGED <<strategy, opts, self_diff, git_diff, encoder, prompts,
                   n_tokens>>
    /\ UNCHANGED <<runVars, diffVars, extractVars, codeVars, chatVars, queryVars>>

\* CoreMigrate.make_code_files, with sources that load.
DiscoverFiles ==
    /\ apc = "make_code_files"
    /\ StepTo(IF opts.nfiles = 0 THEN "FileNotFoundError" ELSE "none",
              "make_prompts")
    /\ UNCHANGED <<strategy, opts, self_diff, head, effects, git_diff, encoder,
                   prompts, n_tokens>>
    /\ UNCHANGED <<runVars, diffVars, extractVars, codeVars, chatVars, queryVars>>

\* Whether self.library is a path object, which has a stem: given as one, or
\* made one by parse_library.
LibraryIsPath ==
    \/ opts.library \in {"path", "missing"}
    \/ \E i \in 1..Len(effects) : effects[i] = "parse_library"

\* The context a strategy puts into every prompt: the diff string, or none.
ContextText == IF strategy = "diff" THEN GetDiffStringOf(git_diff) ELSE <<>>

\* make_prompts of the strategy: MigrateOOB makes the encoder first; the
\* others use self.encoder as it is; MigrateDiff and MigrateRepo read
\* self.library.stem for each task, an AttributeError for a module.
AssemblePrompts ==
    /\ apc = "make_prompts"
    /\ LET enc == IF strategy = "oob" THEN MakeEncoderOf(opts) ELSE encoder
           ctx == ContextText
       IN
       /\ encoder' = enc
       /\ IF strategy # "oob" /\ ~LibraryIsPath
          THEN /\ StepTo("AttributeError", "_run")
               /\ UNCHANGED <<prompts, n_tokens>>
          ELSE /\ prompts' = [f \in 1..opts.nfiles |-> PromptText(f, ctx)]
               /\ n_tokens' = [f \in 1..opts.nfiles |->
                                  NTokens(enc, PromptText(f, ctx))]
               /\ StepTo("none", "_run")
    /\ UNCHANGED <<strategy, opts, self_diff, head, effects, git_diff>>
    /\ UNCHANGED <<runVars, diffVars, extractVars, codeVars, chatVars, queryVars>>

\* CoreMigrate._run, lines 68-71: the encoder is made if there is none yet;
\* the tasks follow.
RunHead ==
    /\ apc = "_run"
    /\ encoder' = IF encoder = "None" THEN MakeEncoderOf(opts) ELSE encoder
    /\ StepTo("none", "tasks")
    /\ UNCHANGED <<strategy, opts, self_diff, head, effects, git_diff, prompts,
                   n_tokens>>
    /\ UNCHANGED <<runVars, diffVars, extractVars, codeVars, chatVars, queryVars>>

NextContext ==
    \/ MakeDiff
    \/ RunParseDiff
    \/ RepoMakeEncoder
    \/ GetRepoFiles
    \/ DiscoverFiles
    \/ AssemblePrompts
    \/ RunHead

SpecContext == InitContext /\ [][NextContext]_vars

-----------------------------------------------------------------------------
(* Claims about context acquisition and prompt assembly *)

\* The step that acquires context from the library checkout has ended, by a
\* return or by an exception.
Acquired ==
    \/ strategy = "diff" /\ apc # "make_diff"
    \/ strategy = "repo" /\ apc \notin {"make_encoder", "get_repo_files"}

\* C11: after make_diff or get_repo_files, returned or raised, the library has
\* the same revision checked out as before, on the same branch if it was on
\* one.
C11_CheckoutRestored ==
    Acquired => head = opts.head

\* What make_diff did, read from the record of its effects.
ReadDiffFile == \E i \in 1..Len(effects) : effects[i] = "open diff_file"
RanGit == \E i \in 1..Len(effects) : effects[i] \in GitCommands
ValidatedLibrary == \E i \in 1..Len(effects) : effects[i] = "parse_library"

\* The one strategy make_diff used, given whether diff text counts as
\* supplied.
OneStrategy(diff_supplied) ==
    IF diff_supplied
    THEN self_diff = opts.diff /\ ~ReadDiffFile /\ ~RanGit /\ ~ValidatedLibrary
    ELSE IF opts.diff_file # PyNone
    THEN ReadDiffFile /\ ~RanGit /\ ~ValidatedLibrary
    ELSE ValidatedLibrary /\ ~ReadDiffFile
         /\ (aexc = "none" => RanGit /\ self_diff = Py("str", RepoDiff))

DiffFileParsed ==
    /\ strategy = "diff" /\ ~Truthy(opts.diff) /\ opts.diff_file # PyNone
    /\ apc \notin {"make_diff", "parse_diff"}

\* C13: a diff file of content D gives the FileDiff sequence and the diff
\* text in the prompts that D gives as explicit diff text: whenever the
\* parser accepts D as text, the run that read D from the file holds the same
\* diffs, and its prompts, once made, carry the same diff string.
C13_DiffFileAsDiffText ==
    DiffFileParsed =>
        LET r == ParseGitDiffArg(Py("str", opts.diff_file.text),
                                 DEFAULT_INCLUDE, DEFAULT_EXCLUDE)
        IN  r.raised = "none" =>
                /\ git_diff = r.diffs
                /\ apc \in {"_run", "tasks"} =>
                       prompts = [f \in 1..opts.nfiles |->
                                     PromptText(f, GetDiffStringOf(r.diffs))]

\* C15: after prompt assembly a task's token count is -1 exactly when the
\* tokenizer does not know the model; for a model it knows, the count is the
\* tokenizer's count of the task's prompt.
C15_TokenCountSentinel ==
    apc \in {"_run", "tasks"} =>
        \A f \in 1..Len(n_tokens) :
            /\ n_tokens[f] = -1 <=> ~opts.model_known
            /\ opts.model_known => n_tokens[f] = CountTokens(prompts[f])

\* Whether the command c was run before the i-th effect.
RanBefore(c, i) == \E j \in 1..(i - 1) : effects[j] = c

C30_ExplicitDiffAnyLibrary ==
    (/\ strategy = "diff" /\ Truthy(opts.diff) /\ opts.nfiles > 0
     /\ ParseGitDiffArg(opts.diff, DEFAULT_INCLUDE, DEFAULT_EXCLUDE).raised
            = "none"
     /\ apc \notin {"make_diff", "parse_diff", "make_code_files",
                    "make_prompts"}) =>
        /\ apc \in {"_run", "tasks"}
        /\ Len(prompts) = opts.nfiles

-----------------------------------------------------------------------------
(* SpecChat: the one SimpleQuery that run_single passes to every task,      *)
(* called by the worker threads of sc.parallelize                           *)

\* The number of tasks that call the chatter.
MaxCalls == 3

\* cb.total_tokens of the call of task t.
TotalTokens(t) == t

\* BaseQuery.__init__: the callback is get_openai_callback for an OpenAI model
\* and ai.utils.EmptyCallback for every other provider; the cost starts at 0.
InitChat ==
    /\ get_callback \in {"get_openai_callback", "EmptyCallback"}
    /\ cost = 0
    /\ \E n \in 1..MaxCalls :
          /\ qpc = [t \in 1..n |-> "chat"]
          /\ qreg = [t \in 1..n |-> 0]
    /\ RunIdle /\ DiffIdle /\ ExtractIdle /\ CodeIdle /\ CtxIdle /\ QueryIdle

\* SimpleQuery.chat, lines 150-152: the chain is invoked under the callback;
\* with an EmptyCallback the response is returned.
Invoke(t) ==
    /\ t \in DOMAIN qpc /\ qpc[t] = "chat"
    /\ qpc' = [qpc EXCEPT ![t] = IF get_callback = "EmptyCallback"
                                 THEN "returned" ELSE "update_cost"]
    /\ UNCHANGED <<get_callback, cost, qreg>>
    /\ UNCHANGED <<runVars, diffVars, extractVars, codeVars, ctxVars, queryVars>>

\* update_cost, line 99, first half of the augmented assignment: the value of
\* self.cost["total"] is read.
LoadCost(t) ==
    /\ t \in DOMAIN qpc /\ qpc[t] = "update_cost"
    /\ qreg' = [qreg EXCEPT ![t] = cost]
    /\ qpc' = [qpc EXCEPT ![t] = "store"]
    /\ UNCHANGED <<get_callback, cost>>
    /\ UNCHANGED <<runVars, diffVars, extractVars, codeVars, ctxVars, queryVars>>

\* update_cost, line 99, second half: the sum is stored; chat returns.
StoreCost(t) ==
    /\ t \in DOMAIN qpc /\ qpc[t] = "store"
    /\ cost' = qreg[t] + TotalTokens(t)
    /\ qpc' = [qpc EXCEPT ![t] = "returned"]
    /\ UNCHANGED <<get_callback, qreg>>
    /\ UNCHANGED <<runVars, diffVars, extractVars, codeVars, ctxVars, queryVars>>

NextChat ==
    \/ \E t \in 1..MaxCalls : Invoke(t)
    \/ \E t \in 1..MaxCalls : LoadCost(t)
    \/ \E t \in 1..MaxCalls : StoreCost(t)

SpecChat == InitChat /\ [][NextChat]_vars

-----------------------------------------------------------------------------
(* Claims about the shared chat collaborator *)

RECURSIVE SumTokens(_)
SumTokens(n) == IF n = 0 THEN 0 ELSE TotalTokens(n) + SumTokens(n - 1)

\* C16: while the tasks run nothing but the error list is written by more
\* than one task: the chat collaborator they share is not mutated, and so no
\* interleaving loses an update: its cost stays what it was, and if it were
\* written, the calls that returned would all be counted in it.
C16_ChatterNotMutated ==
    /\ cost = 0
    /\ (\A t \in DOMAIN qpc : qpc[t] = "returned") =>
           cost \in {0, SumTokens(Len(qpc))}

-----------------------------------------------------------------------------
(* SpecQuery: the construction of a query object (BaseQuery.__init__ with   *)
(* LLMConfig, and the subclass constructors)                                *)

\* MODELS: the alias of each model and the model it stands for.
MODELS ==
    [a \in {"gpt-3.5-turbo", "gpt-4o", "gpt-4o-mini", "o1-mini", "o1-preview",
            "o1", "llama3-8b", "llama3-70b", "llama3-8b-128k", "codellama-70b",
            "gemini-2.0-flash-exp", "claude-3.5-haiku", "claude-3.5-sonnet"} |->
        CASE a = "gpt-3.5-turbo" -> "gpt-3.5-turbo-0125"
          [] a = "gpt-4o" -> "gpt-4o-2024-08-06"
          [] a = "gpt-4o-mini" -> "gpt-4o-mini-2024-07-18"
          [] a = "o1-mini" -> "o1-mini-2024-09-12"
          [] a = "o1-preview" -> "o1-preview-2024-09-12"
          [] a = "o1" -> "o1-2024-12-17"
          [] a = "llama3-8b" -> "llama3"
          [] a = "llama3-70b" -> "llama3:70b"
          [] a = "llama3-8b-128k" -> "llama3:8b_128k"
          [] a = "codellama-70b" -> "codellama:70b"
          [] a = "gemini-2.0-flash-exp" -> "gemini-2.0-flash-exp"
          [] a = "claude-3.5-haiku" -> "claude-3-5-haiku-20241022"
          [] a = "claude-3.5-sonnet" -> "claude-3-5-sonnet-20241022"]

\* class Models(Enum): the models of each provider.
Models ==
    [OPENAI |-> {"gpt-3.5-turbo-0125", "gpt-4o-2024-08-06",
                 "gpt-4o-mini-2024-07-18", "o1-mini-2024-09-12",
                 "o1-preview-2024-09-12", "o1-2024-12-17"},
     GEMINI |-> {"gemini-1.5-flash", "gemini-1.5-flash-8b",
                 "gemini-2.0-flash-exp"},
     OLLAMA |-> {"llama3:70b", "llama3", "codellama:70b", "llama3:8b_128k"},
     ANTHROPIC |-> {"claude-3-5-haiku-20241022", "claude-3-5-sonnet-20241022"}]

\* The providers whose set holds the model.
ProvidersOf(model) == {p \in DOMAIN Models : model \in Models[p]}

\* None for self.config and for self.llm.
NoConfig == [model |-> "None", provider |-> "None"]
NoClient == [class |-> "None", model |-> "None"]

\* An exception with its message, and none.
Error(type, text) == [type |-> type, text |-> text]
NoError == Error("none", <<>>)

\* LLMConfig(model=...): validate_model raises ValueError for a model of no
\* provider (pydantic's ValidationError, a ValueError, carries the message);
\* else provider is the name of the provider that has the model.
LLMConfig(model) ==
    IF ProvidersOf(model) = {}
    THEN [raised |-> Error("ValueError",
                           <<"Model '", model, "' not found in any provider.">>),
          config |-> NoConfig]
    ELSE [raised |-> NoError,
          config |-> [model |-> model,
                      provider |-> CHOOSE p \in ProvidersOf(model) : TRUE]]

\* MODELS[model]: the lookup of a key the mapping does not have raises
\* KeyError, which names the key.
LookupModel(model) ==
    IF model \in DOMAIN MODELS
    THEN [raised |-> NoError, value |-> MODELS[model]]
    ELSE [raised |-> Error("KeyError", <<model>>), value |-> ""]

\* The client class BaseQuery.__init__ makes for a provider.
ClientOf(provider) ==
    CASE provider = "OPENAI" -> "ChatOpenAI"
      [] provider = "GEMINI" -> "ChatGoogleGenerativeAI"
      [] provider = "ANTHROPIC" -> "ChatAnthropic"
      [] provider = "OLLAMA" -> "ChatOllama"

\* BaseQuery.__init__(model): the configuration, then the client.
BaseQueryInit(model) ==
    LET found == LookupModel(model) IN
    IF found.raised # NoError
    THEN [raised |-> found.raised, config |-> NoConfig, llm |-> NoClient]
    ELSE LET c == LLMConfig(found.value) IN
         IF c.raised # NoError
         THEN [raised |-> c.raised, config |-> NoConfig, llm |-> NoClient]
         ELSE [raised |-> NoError, config |-> c.config,
               llm |-> [class |-> ClientOf(c.config.provider),
                        model |-> c.config.model]]

\* self.chain of each class: the prompt piped into the client, and into the
\* parser of the class if it has one.
ChainOf(cls) ==
    IF cls = "SimpleQuery" THEN <<"prompt", "llm">>
    ELSE <<"prompt", "llm", "parser">>

\* The identifiers constructors are called with: the aliases, the models of
\* the providers, and identifiers that are neither.
ModelArgs ==
    DOMAIN MODELS \cup UNION {Models[p] : p \in DOMAIN Models}
    \cup {"invalid-model", "gpt-4"}

InitQuery ==
    /\ query_class \in {"SimpleQuery", "CSVQuery", "JSONQuery"}
    /\ model_arg \in ModelArgs
    /\ bpc = "new"
    /\ config = NoConfig /\ llm = NoClient /\ chain = Unset
    /\ bexc = NoError
    /\ RunIdle /\ DiffIdle /\ ExtractIdle /\ CodeIdle /\ CtxIdle /\ ChatIdle

\* SimpleQuery(model), CSVQuery(model), JSONQuery(parser, model):
\* super().__init__(model), then the prompt and the chain.
Construct ==
    /\ bpc = "new"
    /\ LET r == BaseQueryInit(model_arg) IN
       /\ bexc' = r.raised
       /\ config' = r.config
       /\ llm' = r.llm
       /\ IF r.raised = NoError
          THEN bpc' = "built" /\ chain' = ChainOf(query_class)
          ELSE bpc' = "raised" /\ chain' = Unset
    /\ UNCHANGED <<query_class, model_arg>>
    /\ UNCHANGED <<runVars, diffVars, extractVars, codeVars, ctxVars, chatVars>>

\* __call__(user_input): the chain of the object is invoked.
CallQuery ==
    /\ bpc = "built"
    /\ bpc' = "called"
    /\ UNCHANGED <<query_class, model_arg, config, llm, chain, bexc>>
    /\ UNCHANGED <<runVars, diffVars, extractVars, codeVars, ctxVars, chatVars>>

NextQuery == Construct \/ CallQuery

SpecQuery == InitQuery /\ [][NextQuery]_vars

-----------------------------------------------------------------------------
(* Claims about the construction of a query object *)

\* The model an identifier stands for: that of the alias, or itself.
ModelOf(id) == IF id \in DOMAIN MODELS THEN MODELS[id] ELSE id

\* The identifiers that are supported: an alias, or a model of a provider.
Supported(id) == id \in DOMAIN MODELS \/ ProvidersOf(id) # {}

\* C26: for every supported model identifier, an alias or a model of a
\* provider, the construction of a query object succeeds and config.provider
\* is the provider whose set holds the model.
C26_SupportedModelConstructs ==
    (Supported(model_arg) /\ bpc # "new") =>
        /\ bpc # "raised"
        /\ config # NoConfig
        /\ config.provider \in ProvidersOf(ModelOf(model_arg))

\* C27: the construction with an identifier of no provider fails with
\* ValueError and the message Model '<id>' not found in any provider., and
\* no configuration, client or chain is made.
C27_UnknownModelValueError ==
    (~Supported(model_arg) /\ bpc # "new") =>
        /\ bpc = "raised"
        /\ bexc = Error("ValueError",
                        <<"Model '", model_arg, "' not found in any provider.">>)
        /\ config = NoConfig /\ llm = NoClient /\ chain = Unset

====
